---- MODULE Spec2Model ----
(***************************************************************************)
(* The LPC spritesheet catalog builders: gen.py (asset scan into           *)
(* lpc_character_generator.sqlite), gen_new.py (sheet-definition import    *)
(* into lpc_spritesheet.db) and gen_characters.py (flat character table).  *)
(* Text the code inspects character by character (paths, keys, SQL text)   *)
(* is a sequence of one-character strings; Spell gives the spelling of     *)
(* the literals used below.                                                *)
(***************************************************************************)
EXTENDS Integers, Sequences, FiniteSets, TLC

\* The spelling of the literals.
Spell ==
    "body" :> <<"b", "o", "d", "y">> @@
    "feet" :> <<"f", "e", "e", "t">> @@
    "legs" :> <<"l", "e", "g", "s">> @@
    "torso" :> <<"t", "o", "r", "s", "o">> @@
    "head" :> <<"h", "e", "a", "d">> @@
    "hair" :> <<"h", "a", "i", "r">> @@
    "helmet" :> <<"h", "e", "l", "m", "e", "t">> @@
    "cloak" :> <<"c", "l", "o", "a", "k">> @@
    "weapon" :> <<"w", "e", "a", "p", "o", "n">> @@
    "shield" :> <<"s", "h", "i", "e", "l", "d">> @@
    "walk" :> <<"w", "a", "l", "k">> @@
    "thrust" :> <<"t", "h", "r", "u", "s", "t">> @@
    "shoot" :> <<"s", "h", "o", "o", "t">> @@
    "cast" :> <<"c", "a", "s", "t">> @@
    "slash" :> <<"s", "l", "a", "s", "h">> @@
    "spellcast" :> <<"s", "p", "e", "l", "l", "c", "a", "s", "t">> @@
    "hurt" :> <<"h", "u", "r", "t">> @@
    ".png" :> <<".", "p", "n", "g">> @@
    "layer_" :> <<"l", "a", "y", "e", "r", "_">> @@
    "/" :> <<"/">> @@
    "\\" :> <<"\\">> @@
    "torso/walk/a.png" :> <<"t", "o", "r", "s", "o", "/", "w", "a", "l", "k", "/", "a", ".", "p", "n", "g">> @@
    "legs/hurt/a.png" :> <<"l", "e", "g", "s", "/", "h", "u", "r", "t", "/", "a", ".", "p", "n", "g">> @@
    "Head/legs/slash/walk.png" :> <<"H", "e", "a", "d", "/", "l", "e", "g", "s", "/", "s", "l", "a", "s", "h", "/", "w", "a", "l", "k", ".", "p", "n", "g">> @@
    "body/spellcast/b.png" :> <<"b", "o", "d", "y", "/", "s", "p", "e", "l", "l", "c", "a", "s", "t", "/", "b", ".", "p", "n", "g">> @@
    "misc/c.png" :> <<"m", "i", "s", "c", "/", "c", ".", "p", "n", "g">> @@
    "hair/walk/d.PNG" :> <<"h", "a", "i", "r", "/", "w", "a", "l", "k", "/", "d", ".", "P", "N", "G">> @@
    "male/torso/walk/leather.png" :> <<"m", "a", "l", "e", "/", "t", "o", "r", "s", "o", "/", "w", "a", "l", "k", "/", "l", "e", "a", "t", "h", "e", "r", ".", "p", "n", "g">> @@
    "hat" :> <<"h", "a", "t">> @@
    "Hat" :> <<"H", "a", "t">> @@
    "red" :> <<"r", "e", "d">> @@
    "blue" :> <<"b", "l", "u", "e">> @@
    "default" :> <<"d", "e", "f", "a", "u", "l", "t">> @@
    "hats/male" :> <<"h", "a", "t", "s", "/", "m", "a", "l", "e">> @@
    "hats/female" :> <<"h", "a", "t", "s", "/", "f", "e", "m", "a", "l", "e">> @@
    "hats/male/red" :> <<"h", "a", "t", "s", "/", "m", "a", "l", "e", "/", "r", "e", "d">> @@
    "hats/male/blue" :> <<"h", "a", "t", "s", "/", "m", "a", "l", "e", "/", "b", "l", "u", "e">> @@
    "hats/female/red" :> <<"h", "a", "t", "s", "/", "f", "e", "m", "a", "l", "e", "/", "r", "e", "d">> @@
    "hats/female/blue" :> <<"h", "a", "t", "s", "/", "f", "e", "m", "a", "l", "e", "/", "b", "l", "u", "e">> @@
    "layer_hat" :> <<"l", "a", "y", "e", "r", "_", "h", "a", "t">> @@
    "layer_1" :> <<"l", "a", "y", "e", "r", "_", "1">> @@
    "layer_2" :> <<"l", "a", "y", "e", "r", "_", "2">> @@
    "layer_o'k" :> <<"l", "a", "y", "e", "r", "_", "o", "'", "k">> @@
    "credits" :> <<"c", "r", "e", "d", "i", "t", "s">> @@
    "cape" :> <<"c", "a", "p", "e">> @@
    "Cape" :> <<"C", "a", "p", "e">> @@
    "capes/" :> <<"c", "a", "p", "e", "s", "/">> @@
    "capes\\f" :> <<"c", "a", "p", "e", "s", "\\", "f">> @@
    "/abs" :> <<"/", "a", "b", "s">> @@
    "" :> <<>> @@
    "x" :> <<"x">> @@
    "Tom's\nx" :> <<"T", "o", "m", "'", "s", "\n", "x">> @@
    "a" :> <<"a">> @@
    "b" :> <<"b">> @@
    "walk.png" :> <<"w", "a", "l", "k", ".", "p", "n", "g">> @@
    "name" :> <<"n", "a", "m", "e">> @@
    "type_name" :> <<"t", "y", "p", "e", "_", "n", "a", "m", "e">> @@
    "variants" :> <<"v", "a", "r", "i", "a", "n", "t", "s">> @@
    "animations" :> <<"a", "n", "i", "m", "a", "t", "i", "o", "n", "s">> @@
    "match_body_color" :> <<"m", "a", "t", "c", "h", "_", "b", "o", "d", "y", "_", "c", "o", "l", "o", "r">> @@
    "zPos" :> <<"z", "P", "o", "s">> @@
    "male" :> <<"m", "a", "l", "e">> @@
    "female" :> <<"f", "e", "m", "a", "l", "e">> @@
    "capes" :> <<"c", "a", "p", "e", "s">>

\* ----------------------------------------------------------------- bounds
\* Longest file list os.walk yields / longest list of definition files.
MaxFiles == 2

\* Times scan_assets is entered on one connection.
MaxScans == 2

\* Times a tool's main() is started on the same store.
MaxRuns == 2

\* Store-level errors (sqlite3.Error for a reason outside the data) per model run.
MaxStoreErrors == 1

\* ------------------------------------------------------------------- text
\* Python None where a vocabulary name is expected.
None == "None"

\* SQL NULL in an INTEGER column.
NULL == -1

LowerOf ==
    "A" :> "a" @@ "B" :> "b" @@ "C" :> "c" @@ "D" :> "d" @@ "E" :> "e" @@
    "F" :> "f" @@ "G" :> "g" @@ "H" :> "h" @@ "I" :> "i" @@ "J" :> "j" @@
    "K" :> "k" @@ "L" :> "l" @@ "M" :> "m" @@ "N" :> "n" @@ "O" :> "o" @@
    "P" :> "p" @@ "Q" :> "q" @@ "R" :> "r" @@ "S" :> "s" @@ "T" :> "t" @@
    "U" :> "u" @@ "V" :> "v" @@ "W" :> "w" @@ "X" :> "x" @@ "Y" :> "y" @@
    "Z" :> "z"

\* str.lower()
Lower(s) == [i \in DOMAIN s |-> IF s[i] \in DOMAIN LowerOf THEN LowerOf[s[i]] ELSE s[i]]

\* `k in s` for two strings
Contains(s, k) == \E i \in 0..(Len(s) - Len(k)) : SubSeq(s, i + 1, i + Len(k)) = k

\* s.endswith(k)
EndsWith(s, k) == Len(s) >= Len(k) /\ SubSeq(s, Len(s) - Len(k) + 1, Len(s)) = k

\* s.startswith(k)
StartsWith(s, k) == Len(s) >= Len(k) /\ SubSeq(s, 1, Len(k)) = k

Max(S) == CHOOSE m \in S : \A n \in S : n <= m

\* Position of the last occurrence of character c in s, 0 when there is none.
LastIndexOf(s, c) == LET I == {i \in DOMAIN s : s[i] = c} IN IF I = {} THEN 0 ELSE Max(I)

\* The file name os.walk yields for a relative path: the part after the last "/".
Basename(p) == SubSeq(p, LastIndexOf(p, "/") + 1, Len(p))

\* os.path.splitext(file)[0]: cut at the last dot, unless only dots precede it.
SplitextRoot(f) ==
    LET d == LastIndexOf(f, ".")
    IN  IF d > 0 /\ \E i \in 1..(d - 1) : f[i] # "." THEN SubSeq(f, 1, d - 1) ELSE f

Range(s) == {s[i] : i \in DOMAIN s}

\* Sequences without repetition, of length at most n, over the set S.
RECURSIVE SeqsUpTo(_, _)
SeqsUpTo(S, n) ==
    IF n = 0 THEN {<<>>}
    ELSE LET shorter == SeqsUpTo(S, n - 1)
         IN  shorter \cup {Append(q, x) : q \in {r \in shorter : Len(r) = n - 1},
                                          x \in S} 

NoRepeat(q) == \A i, j \in DOMAIN q : i # j => q[i] # q[j]

\* -------------------------------------------------------------- the store
\* A store file: whether it exists, the columns added by ALTER TABLE, and the
\* rows of each table it holds (a table exists when it is in DOMAIN rows).
NoStore == [exists |-> FALSE, columns |-> {}, rows |-> <<>>]

\* CREATE TABLE IF NOT EXISTS for each table of T: existing tables keep their rows.
CreateTables(s, T) == [s EXCEPT !.exists = TRUE, !.rows = s.rows @@ [t \in T |-> {}]]

Table(s, t) == IF t \in DOMAIN s.rows THEN s.rows[t] ELSE {}

\* The rowid SQLite gives a new row of an INTEGER PRIMARY KEY table.
NextRowid(rows) == IF rows = {} THEN 1 ELSE Max({r.id : r \in rows}) + 1

\* Rows in rowid order (a table scan).
RECURSIVE ByRowid(_)
ByRowid(rows) ==
    IF rows = {} THEN <<>>
    ELSE LET first == CHOOSE r \in rows : \A q \in rows : r.id <= q.id
         IN  <<first>> \o ByRowid(rows \ {first})

\* ------------------------------------------------------- gen.py: the data
ANIMATIONS == <<
    [name |-> "walk",      direction_count |-> 4, frame_count |-> 9],
    [name |-> "thrust",    direction_count |-> 4, frame_count |-> 8],
    [name |-> "shoot",     direction_count |-> 4, frame_count |-> 13],
    [name |-> "cast",      direction_count |-> 4, frame_count |-> 7],
    [name |-> "slash",     direction_count |-> 4, frame_count |-> 6],
    [name |-> "spellcast", direction_count |-> 4, frame_count |-> 7],
    [name |-> "hurt",      direction_count |-> 1, frame_count |-> 6] >>

\* The animation names in the order of the UNIQUE index on animations.name.
AnimationsByName == <<"cast", "hurt", "shoot", "slash", "spellcast", "thrust", "walk">>

LAYER_ORDER == <<"body", "feet", "legs", "torso", "head", "hair", "helmet", "cloak",
                 "weapon", "shield">>

SchemaTables == {"animations", "layers", "assets", "asset_animations", "palettes",
                 "characters", "character_assets"}

\* UPDATE layers SET draw_order = CASE name ... END
DrawOrderCase(name) ==
    CASE name = "body"      -> 1
      [] name = "torso"     -> 2
      [] name = "legs"      -> 3
      [] name = "feet"      -> 4
      [] name = "hair"      -> 5
      [] name = "head"      -> 6
      [] name = "eyes"      -> 7
      [] name = "accessory" -> 8
      [] OTHER              -> 99

\* ALTER TABLE layers ADD COLUMN draw_order raises "duplicate column name" when
\* the column is there already, and executescript stops at that statement.
SchemaRaises(s) == "draw_order" \in s.columns

\* cur.executescript(SCHEMA): every statement commits as it runs.
ExecuteSchema(s) ==
    LET created == CreateTables(s, SchemaTables)
    IN  IF SchemaRaises(s) THEN created
        ELSE [created EXCEPT
                !.columns = @ \cup {"draw_order"},
                !.rows["layers"] =
                    {[draw_order |-> DrawOrderCase(r.name)] @@ r : r \in @}]

\* INSERT OR IGNORE INTO animations, for each entry of ANIMATIONS from the i-th on.
RECURSIVE SeedAnimations(_, _)
SeedAnimations(rows, i) ==
    IF i > Len(ANIMATIONS) THEN rows
    ELSE LET a == ANIMATIONS[i]
         IN  SeedAnimations(
                 IF \E r \in rows : r.name = a.name THEN rows
                 ELSE rows \cup {[id |-> NextRowid(rows), name |-> a.name,
                                  direction_count |-> a.direction_count,
                                  frame_count |-> a.frame_count]},
                 i + 1)

\* INSERT OR IGNORE INTO layers (name, render_order), enumerate() counting from 0.
RECURSIVE SeedLayers(_, _)
SeedLayers(rows, i) ==
    IF i > Len(LAYER_ORDER) THEN rows
    ELSE SeedLayers(
             IF \E r \in rows : r.name = LAYER_ORDER[i] THEN rows
             ELSE rows \cup {[id |-> NextRowid(rows), name |-> LAYER_ORDER[i],
                              render_order |-> i - 1, draw_order |-> NULL]},
             i + 1)

\* init_db with the UPDATE of draw_order run after the layers are seeded.
SeedThenSetDrawOrder(s) ==
    [s EXCEPT !.rows["animations"] = SeedAnimations(@, 1),
              !.rows["layers"] = {[r EXCEPT !.draw_order = DrawOrderCase(r.name)]
                                  : r \in SeedLayers(@, 1)}]

\* init_db after the schema script: seed both vocabularies.
SeedVocabularies(s) ==
    [s EXCEPT !.rows["animations"] = SeedAnimations(@, 1),
              !.rows["layers"] = SeedLayers(@, 1)]

\* find_layer: the first entry of LAYER_ORDER, from the i-th on, inside name.lower().
RECURSIVE FindLayerFrom(_, _)
FindLayerFrom(name, i) ==
    IF i > Len(LAYER_ORDER) THEN None
    ELSE IF Contains(Lower(name), Spell[LAYER_ORDER[i]]) THEN LAYER_ORDER[i]
    ELSE FindLayerFrom(name, i + 1)

\* find_layer without its early return: the last entry of LAYER_ORDER inside the name.
find_layer_last(name) ==
    LET hits == {i \in DOMAIN LAYER_ORDER : Contains(Lower(name), Spell[LAYER_ORDER[i]])}
    IN  IF hits = {} THEN None ELSE LAYER_ORDER[Max(hits)]

find_layer(name) == FindLayerFrom(name, 1)

\* next((a for a in anim_ids if a in rel_path.lower()), None): ids is the dict as the
\* sequence of its items in iteration order.
RECURSIVE FindAnimationFrom(_, _, _)
FindAnimationFrom(ids, rel_path, i) ==
    IF i > Len(ids) THEN None
    ELSE IF Contains(Lower(rel_path), Spell[ids[i].name]) THEN ids[i].name
    ELSE FindAnimationFrom(ids, rel_path, i + 1)

find_animation(ids, rel_path) == FindAnimationFrom(ids, rel_path, 1)

\* dict[key] on a dict kept as a sequence of [name, id] items.
IdOf(ids, name) == ids[CHOOSE i \in DOMAIN ids : ids[i].name = name].id

\* SELECT id, name FROM <table>, which has no ORDER BY: SQLite answers from the table
\* (rowid order) or from the covering UNIQUE index on name (name order).
SelectIdName(rows, scanOrder, byName) ==
    IF scanOrder = "rowid" THEN [i \in DOMAIN ByRowid(rows) |->
                                    [name |-> ByRowid(rows)[i].name, id |-> ByRowid(rows)[i].id]]
    ELSE LET present == SelectSeq(byName, LAMBDA n : \E r \in rows : r.name = n)
         IN  [i \in DOMAIN present |->
                 [name |-> present[i], id |-> (CHOOSE r \in rows : r.name = present[i]).id]]

\* The assets table's only uniqueness constraint is its PRIMARY KEY id: a new row
\* conflicts with an old one when both have the same id.
AssetConflict(old, new) == old.id = new.id

\* INSERT OR IGNORE INTO assets (name, layer_id, file_path); gender takes its default.
InsertAssetRow(rows, name, layer_id, path) ==
    LET new == [id |-> NextRowid(rows), name |-> name, layer_id |-> layer_id,
                gender |-> "unisex", file_path |-> path]
    IN  IF \E old \in rows : AssetConflict(old, new) THEN rows ELSE rows \cup {new}

\* INSERT OR IGNORE INTO asset_animations, PRIMARY KEY (asset_id, animation_id).
InsertLinkRow(rows, asset_id, anim_id, path) ==
    IF \E old \in rows : old.asset_id = asset_id /\ old.animation_id = anim_id THEN rows
    ELSE rows \cup {[asset_id |-> asset_id, animation_id |-> anim_id,
                     frame_path_template |-> path]}

\* The read-back keyed by the asset's name alone.
AssetIdMapByName(rows) ==
    [k \in {<<r.name, r.file_path>> : r \in rows} |->
        Max({r.id : r \in {q \in rows : q.name = k[1]}})]

\* {(name, path): id for id, name, path in cur.fetchall()}: rows come in rowid order
\* and a later row replaces an earlier one under the same key.
AssetIdMap(rows) ==
    [k \in {<<r.name, r.file_path>> : r \in rows} |->
        Max({r.id : r \in {q \in rows : <<q.name, q.file_path>> = k}})]

\* asset_id_map.get(key), with 0 for None (`if asset_id:` treats both alike).
GetId(m, k) == IF k \in DOMAIN m THEN m[k] ELSE 0

\* ------------------------------------------------- sheet definition files
\* A parsed JSON value: a string, a number, a boolean, a list of strings or an object; an object
\* is the sequence of its [k, v] items in the order the file gives them.
Str(s) == [t |-> "str", s |-> s]
Num(n) == [t |-> "num", n |-> n]
Bool(b) == [t |-> "bool", b |-> b]
List(xs) == [t |-> "list", xs |-> xs]
Obj(items) == [t |-> "obj", items |-> items]
Item(k, v) == [k |-> Spell[k], v |-> v]

HasKey(items, k) == \E i \in DOMAIN items : items[i].k = k

\* dict.get(k, default)
Get(items, k, default) ==
    IF HasKey(items, k) THEN items[CHOOSE i \in DOMAIN items : items[i].k = k].v
    ELSE default

\* The hat definition: two variants, zPos 5, a directory for each of two genders.
HatDef == [parses |-> TRUE, data |-> <<
    Item("type_name", Str(Spell["hat"])),
    Item("variants", List(<<Spell["red"], Spell["blue"]>>)),
    Item("layer_hat", Obj(<<Item("zPos", Num(5)),
                            Item("male", Str(Spell["hats/male"])),
                            Item("female", Str(Spell["hats/female"]))>>)) >>]

\* No type_name.
NoTypeDef == [parses |-> TRUE, data |-> <<
    Item("name", Str(Spell["x"])),
    Item("layer_1", Obj(<<Item("zPos", Num(1)), Item("male", Str(Spell["capes/"]))>>)) >>]

\* A quote in a layer key, a directory with a trailing slash.
CapeDef == [parses |-> TRUE, data |-> <<
    Item("name", Str(Spell["Cape"])),
    Item("type_name", Str(Spell["cape"])),
    Item("match_body_color", Bool(TRUE)),
    Item("layer_1", Obj(<<Item("zPos", Num(2)), Item("male", Str(Spell["capes/"]))>>)),
    Item("layer_o'k", Obj(<<Item("male", Str(Spell["capes"]))>>)),
    Item("animations", List(<<Spell["walk"]>>)) >>]

\* A directory with a backslash. Malformed entries: a layer that is no object, a
\* nested value that is no string, an object under a key that is no layer_ key; an
\* empty list of variants.
MixedDef == [parses |-> TRUE, data |-> <<
    Item("type_name", Str(Spell["x"])),
    Item("variants", List(<<>>)),
    Item("layer_1", Str(Spell["credits"])),
    Item("credits", Obj(<<Item("male", Str(Spell["a"]))>>)),
    Item("layer_2", Obj(<<Item("zPos", Num(1)), Item("male", Str(Spell["capes\\f"])),
                          Item("female", Num(7))>>)) >>]

\* A line break in the name, an absolute variant, an empty directory.
BrokenNameDef == [parses |-> TRUE, data |-> <<
    Item("name", Str(Spell["Tom's\nx"])),
    Item("type_name", Str(Spell["b"])),
    Item("variants", List(<<Spell["/abs"]>>)),
    Item("layer_1", Obj(<<Item("male", Str(Spell["a"])), Item("female", Str(Spell[""]))>>)) >>]

\* A file json.load rejects.
Unparsable == [parses |-> FALSE, data |-> <<>>]

Defs == {HatDef, NoTypeDef, CapeDef, MixedDef, BrokenNameDef, Unparsable}

\* ----------------------------------------------------- gen_characters.py
\* s.replace(old, new) for single characters.
ReplaceChar(s, old, new) == [i \in DOMAIN s |-> IF s[i] = old THEN new ELSE s[i]]

\* os.path.join(a, b) of posixpath.
PathJoin(a, b) ==
    IF StartsWith(b, Spell["/"]) THEN b
    ELSE IF a = <<>> \/ EndsWith(a, Spell["/"]) THEN a \o b
    ELSE a \o Spell["/"] \o b

\* os.path.join(path, variant) without the replacement of backslashes.
FullPathUnreplaced(path, variant) == PathJoin(path, variant)

\* os.path.join(path, variant).replace("\\", "/")
FullPath(path, variant) == ReplaceChar(PathJoin(path, variant), "\\", "/")

\* `not type_name` for data.get('type_name'): absent, or the empty string.
NoTypeName(data) ==
    \/ ~HasKey(data, Spell["type_name"])
    \/ Get(data, Spell["type_name"], Str(<<>>)).s = <<>>

\* `variants or ["default"]` for data.get('variants', [])
VariantsOrDefault(data) ==
    LET variants == Get(data, Spell["variants"], List(<<>>)).xs
    IN  IF variants = <<>> THEN <<Spell["default"]>> ELSE variants

\* Lines 34-42: the records of one gender entry, one per variant from the v-th on.
RECURSIVE VariantRecords(_, _, _, _, _, _)
VariantRecords(type_name, gender, path, z_index, variants, v) ==
    IF v > Len(variants) THEN <<>>
    ELSE <<[type_name |-> type_name, gender |-> gender, variant |-> variants[v],
            z_index |-> z_index, path |-> FullPath(path, variants[v])]>>
         \o VariantRecords(type_name, gender, path, z_index, variants, v + 1)

\* Lines 31-42: the records of one layer object, from its g-th item on.
RECURSIVE GenderRecords(_, _, _, _, _)
GenderRecords(type_name, val, z_index, variants, g) ==
    IF g > Len(val) THEN <<>>
    ELSE (IF val[g].k = Spell["zPos"] \/ val[g].v.t # "str" THEN <<>>
          ELSE VariantRecords(type_name, val[g].k, val[g].v.s, z_index, variants, 1))
         \o GenderRecords(type_name, val, z_index, variants, g + 1)

\* Lines 28-42: the records of one definition, from its k-th item on.
RECURSIVE LayerRecords(_, _)
LayerRecords(data, k) ==
    IF k > Len(data) THEN <<>>
    ELSE (IF StartsWith(data[k].k, Spell["layer_"]) /\ data[k].v.t = "obj"
          THEN GenderRecords(Get(data, Spell["type_name"], Str(<<>>)).s,
                             data[k].v.items,
                             Get(data[k].v.items, Spell["zPos"], Num(0)).n,
                             VariantsOrDefault(data), 1)
          ELSE <<>>)
         \o LayerRecords(data, k + 1)

\* Lines 15-42: the records of one file; none when it does not parse or has no
\* type_name.
FileRecords(f) ==
    IF ~f.parses \/ NoTypeName(f.data) THEN <<>> ELSE LayerRecords(f.data, 1)

\* parse_json_definitions over the files from the i-th on.
RECURSIVE ParseFrom(_, _)
ParseFrom(files, i) ==
    IF i > Len(files) THEN <<>> ELSE FileRecords(files[i]) \o ParseFrom(files, i + 1)

parse_json_definitions(files) == ParseFrom(files, 1)

\* INSERT OR IGNORE INTO character: path is UNIQUE.
InsertCharacterRow(rows, e) ==
    IF \E old \in rows : old.path = e.path THEN rows
    ELSE rows \cup {[id |-> NextRowid(rows), type_name |-> e.type_name,
                     gender |-> e.gender, variant |-> e.variant,
                     z_index |-> e.z_index, path |-> e.path]}

\* ------------------------------------------------------------- gen_new.py
\* sanitize_string: every quote doubled.
RECURSIVE sanitize_string(_)
sanitize_string(s) ==
    IF s = <<>> THEN <<>>
    ELSE (IF Head(s) = "'" THEN <<"'", "'">> ELSE <<Head(s)>>) \o sanitize_string(Tail(s))

\* Text put between two quotes of a statement is one SQL string literal when each of
\* its quotes is doubled; with a lone quote the literal ends early and the statement
\* is taken not to parse.
RECURSIVE ValidLiteral(_)
ValidLiteral(text) ==
    IF text = <<>> THEN TRUE
    ELSE IF Head(text) # "'" THEN ValidLiteral(Tail(text))
    ELSE Len(text) >= 2 /\ text[2] = "'" /\ ValidLiteral(SubSeq(text, 3, Len(text)))

\* The value SQLite stores for a valid literal: doubled quotes read as one.
RECURSIVE LiteralValue(_)
LiteralValue(text) ==
    IF text = <<>> THEN <<>>
    ELSE IF Head(text) # "'" THEN <<Head(text)>> \o LiteralValue(Tail(text))
    ELSE <<"'">> \o LiteralValue(SubSeq(text, 3, Len(text)))

\* Whether SQL text that should be blank or comment holds anything else.
RECURSIVE HasSqlToken(_)
HasSqlToken(text) ==
    IF text = <<>> THEN FALSE
    ELSE IF Head(text) \in {" ", "\n", "\t"} THEN HasSqlToken(Tail(text))
    ELSE IF StartsWith(text, <<"-", "-">>)
         THEN (\E i \in DOMAIN text : text[i] = "\n")
              /\ HasSqlToken(SubSeq(text,
                                    (CHOOSE i \in DOMAIN text :
                                        /\ text[i] = "\n"
                                        /\ \A j \in 1..(i - 1) : text[j] # "\n") + 1,
                                    Len(text)))
    ELSE TRUE

\* A statement opens with the comment line "-- ...: {text}": a line break inside text
\* ends the comment, and what follows it is read as SQL in front of the INSERT.
BreaksComment(text) == HasSqlToken(<<"-", "-">> \o text)

\* Lines 147-159: the sheets statement of definition d.
SheetInsert(data, d) ==
    LET name == sanitize_string(Get(data, Spell["name"], Str(<<>>)).s)
        type_name == sanitize_string(Get(data, Spell["type_name"], Str(<<>>)).s)
    IN  [kind |-> "sheets", comment |-> name, name |-> name, type_name |-> type_name,
         match_body_color |->
             IF Get(data, Spell["match_body_color"], Bool(FALSE)).b THEN 1 ELSE 0,
         def |-> d, item |-> 0]

\* Lines 175-181: the layer_paths statements of one layer object, from its p-th item.
RECURSIVE PathInserts(_, _, _, _)
PathInserts(items, d, k, p) ==
    IF p > Len(items) THEN <<>>
    ELSE (IF items[p].k = Spell["zPos"] THEN <<>>
          ELSE <<[kind |-> "layer_paths", path_type |-> items[p].k,
                  path_value |-> sanitize_string(items[p].v.s), def |-> d, item |-> k]>>)
         \o PathInserts(items, d, k, p + 1)

\* Lines 162-181: the layers and layer_paths statements, from the k-th item of data.
RECURSIVE LayerInserts(_, _, _)
LayerInserts(data, d, k) ==
    IF k > Len(data) THEN <<>>
    ELSE (IF StartsWith(data[k].k, Spell["layer_"]) /\ data[k].v.t = "obj"
          THEN <<[kind |-> "layers", comment |-> data[k].k, layer_name |-> data[k].k,
                  z_position |-> Get(data[k].v.items, Spell["zPos"], Num(0)).n,
                  def |-> d, item |-> k]>>
               \o PathInserts(data[k].v.items, d, k, 1)
          ELSE <<>>)
         \o LayerInserts(data, d, k + 1)

\* Lines 184-201: one statement per entry of a list, for the variants or animations.
NameInserts(kind, names, d) ==
    [i \in DOMAIN names |-> [kind |-> kind, name |-> sanitize_string(names[i]),
                             def |-> d, item |-> 0]]

\* sanitize_string raises AttributeError on a value that is neither a string nor
\* None: the name, the type_name, or a path of a layer object.
RaisesAttributeError(data) ==
    \/ \E k \in {Spell["name"], Spell["type_name"]} :
           HasKey(data, k) /\ Get(data, k, Str(<<>>)).t # "str"
    \/ \E i \in DOMAIN data :
           /\ StartsWith(data[i].k, Spell["layer_"]) /\ data[i].v.t = "obj"
           /\ \E p \in DOMAIN data[i].v.items :
                  /\ data[i].v.items[p].k # Spell["zPos"]
                  /\ data[i].v.items[p].v.t # "str"

\* process_single_json(data) for the d-th file.
process_single_json(data, d) ==
    <<SheetInsert(data, d)>>
    \o LayerInserts(data, d, 1)
    \o NameInserts("variants", Get(data, Spell["variants"], List(<<>>)).xs, d)
    \o NameInserts("animations", Get(data, Spell["animations"], List(<<>>)).xs, d)

\* Lines 128-137: a file that does not parse, or whose processing raises, adds nothing.
FileInserts(f, d) ==
    IF ~f.parses \/ RaisesAttributeError(f.data) THEN <<>>
    ELSE process_single_json(f.data, d)

RECURSIVE InsertsFrom(_, _)
InsertsFrom(files, d) ==
    IF d > Len(files) THEN <<>> ELSE FileInserts(files[d], d) \o InsertsFrom(files, d + 1)

NewTables == {"sheets", "layers", "layer_paths", "variants", "animations", "files"}

\* (SELECT MAX(col) FROM table): NULL on an empty table.
MaxId(ids) == IF ids = {} THEN NULL ELSE Max(ids)

\* The value of an AUTOINCREMENT key for the next row.
NextAuto(ids) == IF ids = {} THEN 1 ELSE Max(ids) + 1

SheetIds(s) == {r.sheet_id : r \in Table(s, "sheets")}
LayerIds(s) == {r.layer_id : r \in Table(s, "layers")}

\* The parent a child statement names: SELECT MAX(...) when the statement runs.
ParentSheet(s) == MaxId(SheetIds(s))
ParentLayer(s) == MaxId(LayerIds(s))

\* The column declared without NOT NULL.
NullAccepted(v) == FALSE

\* A NOT NULL column refuses NULL.
NotNullViolated(v) == v = NULL

\* PRAGMA foreign_keys = ON: a child row must name a parent row that exists.
ForeignKeyViolated(ids, v) == v # NULL /\ v \notin ids

\* cursor.execute(insert) raises sqlite3.Error: the text does not parse, or the
\* parent subquery gives a value the column's constraints refuse.
StatementFails(s, st) ==
    CASE st.kind = "sheets" ->
            BreaksComment(st.comment) \/ ~ValidLiteral(st.name) \/ ~ValidLiteral(st.type_name)
      [] st.kind = "layers" ->
            \/ BreaksComment(st.comment) \/ ~ValidLiteral(st.layer_name)
            \/ NotNullViolated(ParentSheet(s))
            \/ ForeignKeyViolated(SheetIds(s), ParentSheet(s))
      [] st.kind = "layer_paths" ->
            \/ ~ValidLiteral(st.path_type) \/ ~ValidLiteral(st.path_value)
            \/ NotNullViolated(ParentLayer(s))
            \/ ForeignKeyViolated(LayerIds(s), ParentLayer(s))
      [] OTHER ->
            \/ ~ValidLiteral(st.name)
            \/ NotNullViolated(ParentSheet(s))
            \/ ForeignKeyViolated(SheetIds(s), ParentSheet(s))

\* The row a statement that does not fail adds; stmt is the statement's place in the
\* batch (a tag of the model, not a column).
StatementRow(s, st, pos) ==
    CASE st.kind = "sheets" ->
            [sheet_id |-> NextAuto(SheetIds(s)), name |-> LiteralValue(st.name),
             type_name |-> LiteralValue(st.type_name),
             match_body_color |-> st.match_body_color, stmt |-> pos]
      [] st.kind = "layers" ->
            [layer_id |-> NextAuto(LayerIds(s)), sheet_id |-> ParentSheet(s),
             layer_name |-> LiteralValue(st.layer_name), z_position |-> st.z_position,
             stmt |-> pos]
      [] st.kind = "layer_paths" ->
            [path_id |-> NextAuto({r.path_id : r \in Table(s, "layer_paths")}),
             layer_id |-> ParentLayer(s), path_type |-> LiteralValue(st.path_type),
             path_value |-> LiteralValue(st.path_value), stmt |-> pos]
      [] st.kind = "variants" ->
            [variant_id |-> NextAuto({r.variant_id : r \in Table(s, "variants")}),
             sheet_id |-> ParentSheet(s), variant_name |-> LiteralValue(st.name),
             stmt |-> pos]
      [] OTHER ->
            [animation_id |-> NextAuto({r.animation_id : r \in Table(s, "animations")}),
             sheet_id |-> ParentSheet(s), animation_name |-> LiteralValue(st.name),
             stmt |-> pos]

Execute(s, st, pos) == [s EXCEPT !.rows[st.kind] = @ \cup {StatementRow(s, st, pos)}]

\* ------------------------------------------------------------------ state
VARIABLES
    tool,               \* which program runs: "gen", "gen_new" or "gen_characters"
    pc,                 \* where the run is
    rootDir,            \* whether the tool's input directory exists
    tree,               \* gen.py: the relative paths os.walk yields, in its order
    defs,               \* the *.json files of sheet_definitions, in listing order
    scanOrder,          \* how the store answers SELECT id, name FROM animations
    disk,               \* the store file: what is committed
    db,                 \* the store as the open connection sees it
    runs,               \* how many times main() was started
    scans,              \* gen.py: how many times scan_assets was entered
    storeErrors,        \* store-level errors raised so far
    layer_ids, anim_ids, asset_cache, asset_entries, animation_entries, asset_id_map,
    idx,                \* position of the loop the run is in
    classified,         \* gen.py: every (rel_path, layer, animation) the scans computed
    inserts,            \* gen_new.py: the INSERT statements of process_json_files
    entries,            \* gen_characters.py: the records of parse_json_definitions
    failed,             \* positions of the inserts whose failure was printed
    completed,          \* how many runs reached their end
    firstCatalog        \* the committed rows when the first run reached its end

scanVars == <<layer_ids, anim_ids, asset_cache, asset_entries, animation_entries,
              asset_id_map, classified>>
inputVars == <<tool, rootDir, tree, defs, scanOrder>>
otherVars == <<inserts, entries, failed>>
vars == <<tool, pc, rootDir, tree, defs, scanOrder, disk, db, runs, scans, storeErrors,
          layer_ids, anim_ids, asset_cache, asset_entries, animation_entries,
          asset_id_map, idx, classified, inserts, entries, failed, completed,
          firstCatalog>>

\* The files of the asset tree the model draws from.
Paths == {Spell["torso/walk/a.png"], Spell["legs/hurt/a.png"],
          Spell["Head/legs/slash/walk.png"], Spell["body/spellcast/b.png"],
          Spell["misc/c.png"], Spell["hair/walk/d.PNG"],
          Spell["male/torso/walk/leather.png"]}

\* os.walk(ASSETS_DIR): nothing, and no error, when the directory is missing.
Walk == IF rootDir THEN tree ELSE <<>>

\* The *.json files of SHEET_DEF_DIR; none when the directory is missing.
Listing == IF rootDir THEN defs ELSE <<>>

\* The rows of the catalog, table by table.
Catalog(s) == s.rows

\* A run reached its end: count it and keep the first catalog.
Finish ==
    /\ completed' = completed + 1
    /\ firstCatalog' = IF completed = 0 THEN Catalog(disk') ELSE firstCatalog

\* --------------------------------------------------------- gen.py: a run
\* main(), line 183: init_db(). The script raises on a store that has the column.
InitDb ==
    /\ tool = "gen" /\ pc = "init"
    /\ LET made == ExecuteSchema(disk)
       IN  IF SchemaRaises(disk)
           THEN /\ disk' = made /\ db' = made
                /\ pc' = "schema_error"
           ELSE /\ disk' = SeedVocabularies(made) /\ db' = disk'
                /\ pc' = "schema_ready"
    /\ UNCHANGED <<inputVars, scanVars, otherVars, runs, scans, storeErrors, idx,
                   completed, firstCatalog>>

\* scan_assets, lines 116-130: cache the ids, start with empty lists.
ScanStart ==
    /\ tool = "gen" /\ pc \in {"schema_ready", "done"} /\ scans < MaxScans
    /\ layer_ids' = SelectIdName(Table(db, "layers"), "rowid", LAYER_ORDER)
    /\ anim_ids' = SelectIdName(Table(db, "animations"), scanOrder, AnimationsByName)
    /\ asset_cache' = {} /\ asset_entries' = <<>> /\ animation_entries' = <<>>
    /\ asset_id_map' = <<>>
    /\ scans' = scans + 1 /\ idx' = 1 /\ pc' = "scanning"
    /\ UNCHANGED <<inputVars, otherVars, disk, db, runs, storeErrors, classified,
                   completed, firstCatalog>>

\* One file of the walk, lines 133-157.
ScanFile ==
    /\ tool = "gen" /\ pc = "scanning" /\ idx <= Len(Walk)
    /\ LET rel_path == Walk[idx]
           file == Basename(rel_path)
           asset_name == SplitextRoot(file)
           animation == find_animation(anim_ids, rel_path)
           layer == find_layer(rel_path)
           key == <<asset_name, rel_path>>
       IN  IF ~EndsWith(file, Spell[".png"])
           THEN UNCHANGED <<asset_cache, asset_entries, animation_entries, classified>>
           ELSE /\ classified' = classified \cup
                       {[path |-> rel_path, layer |-> layer, animation |-> animation]}
                /\ IF animation = None \/ layer = None
                   THEN UNCHANGED <<asset_cache, asset_entries, animation_entries>>
                   ELSE /\ asset_entries' =
                              IF key \in asset_cache THEN asset_entries
                              ELSE Append(asset_entries,
                                          [name |-> asset_name,
                                           layer_id |-> IdOf(layer_ids, layer),
                                           path |-> rel_path])
                        /\ asset_cache' = asset_cache \cup {key}
                        /\ animation_entries' =
                              Append(animation_entries,
                                     [name |-> asset_name, path |-> rel_path,
                                      anim_id |-> IdOf(anim_ids, animation)])
    /\ idx' = idx + 1
    /\ UNCHANGED <<inputVars, otherVars, pc, disk, db, runs, scans, storeErrors,
                   layer_ids, anim_ids, asset_id_map, completed, firstCatalog>>

\* Line 160: BEGIN TRANSACTION, after the walk.
BeginEntities ==
    /\ tool = "gen" /\ pc = "scanning" /\ idx > Len(Walk)
    /\ pc' = "writing_entities" /\ idx' = 1
    /\ UNCHANGED <<inputVars, scanVars, otherVars, disk, db, runs, scans, storeErrors,
                   completed, firstCatalog>>

\* Lines 161-163: one INSERT OR IGNORE INTO assets.
InsertAsset ==
    /\ tool = "gen" /\ pc = "writing_entities" /\ idx <= Len(asset_entries)
    /\ LET e == asset_entries[idx]
       IN  db' = [db EXCEPT !.rows["assets"] = InsertAssetRow(@, e.name, e.layer_id, e.path)]
    /\ idx' = idx + 1
    /\ UNCHANGED <<inputVars, scanVars, otherVars, pc, disk, runs, scans, storeErrors,
                   completed, firstCatalog>>

\* Line 164: COMMIT of the asset inserts.
CommitEntities ==
    /\ tool = "gen" /\ pc = "writing_entities" /\ idx > Len(asset_entries)
    /\ disk' = db /\ pc' = "resolving_ids"
    /\ UNCHANGED <<inputVars, scanVars, otherVars, db, runs, scans, storeErrors, idx,
                   completed, firstCatalog>>

\* Lines 166-171: read the asset ids back, then BEGIN TRANSACTION.
FetchAssetIds ==
    /\ tool = "gen" /\ pc = "resolving_ids"
    /\ asset_id_map' = AssetIdMap(Table(db, "assets"))
    /\ pc' = "writing_links" /\ idx' = 1
    /\ UNCHANGED <<inputVars, otherVars, disk, db, runs, scans, storeErrors, layer_ids,
                   anim_ids, asset_cache, asset_entries, animation_entries, classified,
                   completed, firstCatalog>>

\* Lines 172-178: one asset-animation pair.
InsertLink ==
    /\ tool = "gen" /\ pc = "writing_links" /\ idx <= Len(animation_entries)
    /\ LET e == animation_entries[idx]
           asset_id == GetId(asset_id_map, <<e.name, e.path>>)
       IN  db' = IF asset_id # 0
                 THEN [db EXCEPT !.rows["asset_animations"] =
                                     InsertLinkRow(@, asset_id, e.anim_id, e.path)]
                 ELSE db
    /\ idx' = idx + 1
    /\ UNCHANGED <<inputVars, scanVars, otherVars, pc, disk, runs, scans, storeErrors,
                   completed, firstCatalog>>

\* Line 179: COMMIT of the links; scan_assets returns.
CommitLinks ==
    /\ tool = "gen" /\ pc = "writing_links" /\ idx > Len(animation_entries)
    /\ disk' = db /\ pc' = "done"
    /\ Finish
    /\ UNCHANGED <<inputVars, scanVars, otherVars, db, runs, scans, storeErrors, idx>>

\* A store-level sqlite3.Error in one of the two insert loops: nothing catches it,
\* the process ends and the open transaction is rolled back.
InsertRaises ==
    /\ tool = "gen" /\ storeErrors < MaxStoreErrors
    /\ \/ pc = "writing_entities" /\ idx <= Len(asset_entries)
       \/ pc = "writing_links" /\ idx <= Len(animation_entries)
    /\ db' = disk /\ pc' = "crashed"
    /\ storeErrors' = storeErrors + 1
    /\ UNCHANGED <<inputVars, scanVars, otherVars, disk, runs, scans, idx, completed,
                   firstCatalog>>

\* main(), line 185: conn.close().
Close ==
    /\ tool = "gen" /\ pc = "done"
    /\ pc' = "closed"
    /\ UNCHANGED <<inputVars, scanVars, otherVars, disk, db, runs, scans, storeErrors,
                   idx, completed, firstCatalog>>

GenNext ==
    \/ InitDb \/ ScanStart \/ ScanFile \/ BeginEntities \/ InsertAsset
    \/ CommitEntities \/ FetchAssetIds \/ InsertLink \/ CommitLinks \/ InsertRaises
    \/ Close

\* ------------------------------------------------------ gen_new.py: a run
\* main(), line 338: process_json_files(). None (here: no statements) when the
\* directory is missing or holds no *.json file; main() then creates no database.
ProcessJsonFiles ==
    /\ tool = "gen_new" /\ pc = "init"
    /\ inserts' = InsertsFrom(Listing, 1)
    /\ pc' = IF inserts' = <<>> THEN "no_data" ELSE "create"
    /\ UNCHANGED <<inputVars, scanVars, entries, failed, disk, db, runs, scans,
                   storeErrors, idx, completed, firstCatalog>>

\* create_database, lines 219-234: remove the old store file, run the schema on a new
\* one, BEGIN TRANSACTION.
CreateDatabase ==
    /\ tool = "gen_new" /\ pc = "create"
    /\ disk' = CreateTables(NoStore, NewTables) /\ db' = disk'
    /\ failed' = {} /\ idx' = 1 /\ pc' = "executing"
    /\ UNCHANGED <<inputVars, scanVars, inserts, entries, runs, scans, storeErrors,
                   completed, firstCatalog>>

\* execute_statements_one_by_one's discipline in the batch loop: a commit after each
\* statement.
ExecuteInsertThenCommit ==
    /\ tool = "gen_new" /\ pc = "executing" /\ idx <= Len(inserts)
    /\ IF StatementFails(db, inserts[idx])
       THEN failed' = failed \cup {idx} /\ db' = db
       ELSE failed' = failed /\ db' = Execute(db, inserts[idx], idx)
    /\ disk' = db'
    /\ idx' = idx + 1
    /\ UNCHANGED <<inputVars, scanVars, inserts, entries, pc, runs, scans,
                   storeErrors, completed, firstCatalog>>

\* Lines 236-240: one statement; its sqlite3.Error is printed and the loop goes on.
ExecuteInsert ==
    /\ tool = "gen_new" /\ pc = "executing" /\ idx <= Len(inserts)
    /\ IF StatementFails(db, inserts[idx])
       THEN failed' = failed \cup {idx} /\ db' = db
       ELSE failed' = failed /\ db' = Execute(db, inserts[idx], idx)
    /\ idx' = idx + 1
    /\ UNCHANGED <<inputVars, scanVars, inserts, entries, pc, disk, runs, scans,
                   storeErrors, completed, firstCatalog>>

\* Lines 236-240 when the store itself raises sqlite3.Error on the statement.
ExecuteInsertStoreError ==
    /\ tool = "gen_new" /\ pc = "executing" /\ idx <= Len(inserts)
    /\ storeErrors < MaxStoreErrors
    /\ failed' = failed \cup {idx} /\ idx' = idx + 1
    /\ storeErrors' = storeErrors + 1
    /\ UNCHANGED <<inputVars, scanVars, inserts, entries, pc, disk, db, runs, scans,
                   completed, firstCatalog>>

\* Line 241: COMMIT.
CommitInserts ==
    /\ tool = "gen_new" /\ pc = "executing" /\ idx > Len(inserts)
    /\ disk' = db /\ pc' = "done"
    /\ Finish
    /\ UNCHANGED <<inputVars, scanVars, otherVars, db, runs, scans, storeErrors, idx>>

\* Lines 242-244 and 251: COMMIT raises, ROLLBACK, the error is printed.
CommitRaises ==
    /\ tool = "gen_new" /\ pc = "executing" /\ idx > Len(inserts)
    /\ storeErrors < MaxStoreErrors
    /\ db' = disk /\ pc' = "failed"
    /\ storeErrors' = storeErrors + 1
    /\ UNCHANGED <<inputVars, scanVars, otherVars, disk, runs, scans, idx, completed,
                   firstCatalog>>

NewNext ==
    \/ ProcessJsonFiles \/ CreateDatabase \/ ExecuteInsert \/ ExecuteInsertStoreError
    \/ CommitInserts \/ CommitRaises

\* ----------------------------------------------- gen_characters.py: a run
\* main(), line 75: parse_json_definitions. os.listdir raises when the directory is
\* missing and the program ends there.
ParseDefinitions ==
    /\ tool = "gen_characters" /\ pc = "init"
    /\ IF rootDir
       THEN entries' = parse_json_definitions(Listing) /\ pc' = "parsed"
       ELSE entries' = entries /\ pc' = "config_error"
    /\ UNCHANGED <<inputVars, scanVars, inserts, failed, disk, db, runs, scans,
                   storeErrors, idx, completed, firstCatalog>>

\* insert_into_database, lines 47-59: connect, CREATE TABLE IF NOT EXISTS character.
OpenCharacterDb ==
    /\ tool = "gen_characters" /\ pc = "parsed"
    /\ disk' = CreateTables(disk, {"character"}) /\ db' = disk'
    /\ failed' = {} /\ idx' = 1 /\ pc' = "inserting"
    /\ UNCHANGED <<inputVars, scanVars, inserts, entries, runs, scans, storeErrors,
                   completed, firstCatalog>>

\* Lines 61-66: one INSERT OR IGNORE INTO character.
InsertCharacter ==
    /\ tool = "gen_characters" /\ pc = "inserting" /\ idx <= Len(entries)
    /\ db' = [db EXCEPT !.rows["character"] = InsertCharacterRow(@, entries[idx])]
    /\ idx' = idx + 1
    /\ UNCHANGED <<inputVars, scanVars, otherVars, pc, disk, runs, scans, storeErrors,
                   completed, firstCatalog>>

\* Lines 67-68: the insert raises, the failure is printed and the loop goes on.
InsertCharacterStoreError ==
    /\ tool = "gen_characters" /\ pc = "inserting" /\ idx <= Len(entries)
    /\ storeErrors < MaxStoreErrors
    /\ failed' = failed \cup {idx} /\ idx' = idx + 1
    /\ storeErrors' = storeErrors + 1
    /\ UNCHANGED <<inputVars, scanVars, inserts, entries, pc, disk, db, runs, scans,
                   completed, firstCatalog>>

\* Lines 70-71: commit and close.
CommitCharacters ==
    /\ tool = "gen_characters" /\ pc = "inserting" /\ idx > Len(entries)
    /\ disk' = db /\ pc' = "done"
    /\ Finish
    /\ UNCHANGED <<inputVars, scanVars, otherVars, db, runs, scans, storeErrors, idx>>

CharNext ==
    \/ ParseDefinitions \/ OpenCharacterDb \/ InsertCharacter
    \/ InsertCharacterStoreError \/ CommitCharacters

\* The program is started again on the store the last run left.
Restart ==
    /\ \/ pc \in {"closed", "schema_error", "crashed", "no_data", "config_error", "failed"}
       \/ pc = "done" /\ tool # "gen"
    /\ runs < MaxRuns
    /\ runs' = runs + 1 /\ pc' = "init" /\ db' = disk /\ idx' = 1
    /\ UNCHANGED <<inputVars, scanVars, otherVars, disk, scans, storeErrors, completed,
                   firstCatalog>>

\* ---------------------------------------------------------- specification
Init ==
    /\ tool \in {"gen", "gen_new", "gen_characters"}
    /\ rootDir \in BOOLEAN
    /\ tree \in (IF tool = "gen" /\ rootDir
                THEN {q \in SeqsUpTo(Paths, MaxFiles) : NoRepeat(q)} ELSE {<<>>})
    /\ defs \in (IF tool # "gen" /\ rootDir
                THEN {q \in SeqsUpTo(Defs, MaxFiles) : NoRepeat(q)} ELSE {<<>>})
    /\ scanOrder \in (IF tool = "gen" THEN {"rowid", "name"} ELSE {"rowid"})
    /\ disk = NoStore /\ db = NoStore
    /\ pc = "init" /\ runs = 1 /\ scans = 0 /\ storeErrors = 0 /\ idx = 1
    /\ layer_ids = <<>> /\ anim_ids = <<>> /\ asset_cache = {}
    /\ asset_entries = <<>> /\ animation_entries = <<>> /\ asset_id_map = <<>>
    /\ classified = {} /\ inserts = <<>> /\ entries = <<>> /\ failed = {}
    /\ completed = 0 /\ firstCatalog = <<>>

Next == GenNext \/ NewNext \/ CharNext \/ Restart

Spec == Init /\ [][Next]_vars

\* ----------------------------------------------------------------- claims
Tables(s) == DOMAIN s.rows

\* C1: running the pipeline again over an unchanged input tree leaves the catalog as
\* the first run left it: the second run adds no row. (Stated for runs in which the
\* store raised no error of its own.)
C1_RerunAddsNothing ==
    (completed >= 2 /\ storeErrors = 0) => Catalog(disk) = firstCatalog

\* C2: the schema step (init_db's script, create_database) on a store whose tables
\* exist neither raises nor loses a row. (Stated for stores that raised no error of
\* their own.)
C2_SchemaStep ==
    \/ tool = "gen" /\ pc = "init" /\ pc' # "init"
    \/ tool = "gen_new" /\ pc = "create" /\ pc' # "create"

C2_SchemaSetupSafe ==
    [][(C2_SchemaStep /\ Tables(disk) # {} /\ storeErrors = 0) =>
          /\ pc' # "schema_error"
          /\ \A t \in Tables(disk) : t \in Tables(disk') /\ disk.rows[t] \subseteq disk'.rows[t]]_vars

\* C3: no two rows of assets have the same name and the same file_path, whatever
\* number of scans wrote them.
C3_AssetsUnique ==
    \A a, b \in Table(disk, "assets") :
        (a.name = b.name /\ a.file_path = b.file_path) => a = b

\* C4: in the committed catalog every asset names a layer that exists, every
\* asset-animation link an asset and an animation that exist, and in the definition
\* importer every layer a sheet and every layer path a layer that exist.
C4_ReferentialIntegrity ==
    /\ tool = "gen" =>
          /\ \A a \in Table(disk, "assets") :
                 \E l \in Table(disk, "layers") : l.id = a.layer_id
          /\ \A x \in Table(disk, "asset_animations") :
                 /\ \E a \in Table(disk, "assets") : a.id = x.asset_id
                 /\ \E n \in Table(disk, "animations") : n.id = x.animation_id
    /\ tool = "gen_new" =>
          /\ \A l \in Table(disk, "layers") :
                 \E sh \in Table(disk, "sheets") : sh.sheet_id = l.sheet_id
          /\ \A q \in Table(disk, "layer_paths") :
                 \E l \in Table(disk, "layers") : l.layer_id = q.layer_id

\* A batch in which inserts failed was committed with the layer paths that did not.
C4_Witness ==
    /\ tool = "gen_new" /\ pc = "done" /\ failed # {}
    /\ \E i \in failed : inserts[i].kind = "layer_paths"
    /\ Table(disk, "layer_paths") # {}

\* C5, as the claim has it: a batch in which an insert failed commits none of its
\* inserts. (Stated for gen_new.py, whose batch starts on an empty store, and for
\* failures of the statements themselves.)
C5_AllOrNothing ==
    (tool = "gen_new" /\ pc = "done" /\ failed # {} /\ storeErrors = 0) =>
        \A t \in Tables(disk) : disk.rows[t] = {}

InBatch(p) == p \in {"writing_entities", "writing_links", "executing", "inserting"}

\* What the COMMIT that ends the batch of phase p leaves in the store d: every insert
\* of the batch that did not fail.
C5_BatchCommitted(p, d) ==
    CASE p = "executing" ->
            \A i \in DOMAIN inserts :
                (i \notin failed) <=> (\E r \in Table(d, inserts[i].kind) : r.stmt = i)
      [] p = "inserting" ->
            \A i \in DOMAIN entries \ failed :
                \E r \in Table(d, "character") :
                    /\ r.path = entries[i].path
                    /\ r.path \in {entries[j].path : j \in 1..i}
      [] p = "writing_entities" ->
            \A i \in DOMAIN asset_entries :
                \E r \in Table(d, "assets") :
                    /\ r.name = asset_entries[i].name
                    /\ r.file_path = asset_entries[i].path
                    /\ r.layer_id = asset_entries[i].layer_id
      [] OTHER ->
            \A i \in DOMAIN animation_entries :
                \E r \in Table(d, "asset_animations") :
                    /\ r.animation_id = animation_entries[i].anim_id
                    /\ r.asset_id = GetId(asset_id_map, <<animation_entries[i].name,
                                                          animation_entries[i].path>>)

\* C5, amended: the inserts of a batch run in one transaction. Nothing of the batch
\* is committed while its inserts run; its COMMIT commits every insert that did not
\* fail, a failed one being printed and skipped (gen_new.py, gen_characters.py); a
\* run that ends on an error inside the batch (gen.py, or a COMMIT that raises)
\* commits nothing of it.
C5_OneTransactionPerBatch ==
    [][InBatch(pc) =>
          /\ pc' = pc => disk' = disk
          /\ pc' \in {"crashed", "failed"} => disk' = disk /\ db' = disk
          /\ pc' \notin {pc, "crashed", "failed"} =>
                disk' = db /\ C5_BatchCommitted(pc, disk')]_vars

\* A committed batch of gen_new.py in which a layers insert failed and others did not.
C5_Witness ==
    /\ tool = "gen_new" /\ pc = "done" /\ storeErrors = 0
    /\ \E i \in failed : inserts[i].kind = "layers"
    /\ Table(disk, "sheets") # {} /\ Table(disk, "layers") # {}

\* C6: one scan goes through schema-ready, scanning, writing entities, resolving ids,
\* writing links, done, in that order; a link is inserted only after the asset inserts
\* are committed and the ids read back from the store, and with the id read back for
\* its own (name, path).
Rank(p) ==
    CASE p = "init" -> 0
      [] p = "schema_ready" -> 1
      [] p = "scanning" -> 2
      [] p = "writing_entities" -> 3
      [] p = "resolving_ids" -> 4
      [] p = "writing_links" -> 5
      [] p = "done" -> 6
      [] OTHER -> 7

C6_PhaseStep ==
    \/ pc' = pc
    \/ Rank(pc) < 6 /\ Rank(pc') = Rank(pc) + 1
    \/ pc' \in {"schema_error", "crashed"}                  \* the run ends on an error
    \/ pc = "done" /\ pc' \in {"closed", "scanning"}        \* the scan is over
    \/ Rank(pc) = 7 /\ pc' = "init"                         \* the next run

C6_LinksAfterReadBack ==
    pc = "writing_links" =>
        /\ \A i \in DOMAIN asset_entries :
               \E a \in Table(disk, "assets") :
                   a.name = asset_entries[i].name /\ a.file_path = asset_entries[i].path
        /\ DOMAIN asset_id_map = {<<a.name, a.file_path>> : a \in Table(disk, "assets")}

C6_LinkStep ==
    Table(db', "asset_animations") # Table(db, "asset_animations") =>
        /\ pc = "writing_links" /\ idx \in DOMAIN animation_entries
        /\ \A x \in Table(db', "asset_animations") \ Table(db, "asset_animations") :
               \E a \in Table(disk, "assets") :
                   /\ a.id = x.asset_id
                   /\ a.name = animation_entries[idx].name
                   /\ a.file_path = animation_entries[idx].path

C6_TwoTransactionOrder ==
    [][tool = "gen" =>
          /\ C6_PhaseStep
          /\ C6_LinksAfterReadBack /\ C6_LinksAfterReadBack'
          /\ C6_LinkStep]_vars

\* A first scan that linked two assets.
C6_Witness ==
    /\ tool = "gen" /\ pc = "done" /\ scans = 1
    /\ Cardinality(Table(disk, "asset_animations")) >= 2

\* C7: with the tool's input directory missing nothing is written to the store.
C7_MissingRootWritesNothing == ~rootDir => disk = NoStore

\* C9: a definition without type_name gives no insert statement, no record and no
\* row of the catalog.
C9_NoTypeNameSkipped ==
    /\ \A i \in DOMAIN inserts : ~NoTypeName(Listing[inserts[i].def].data)
    /\ tool = "gen_new" =>
           \A t \in Tables(disk) : \A r \in disk.rows[t] :
               ~NoTypeName(Listing[inserts[r.stmt].def].data)
    /\ \A i \in DOMAIN entries : entries[i].type_name # <<>>

\* The (file, layer item, gender item, variant) places of the listing that give a
\* record: a file that parses and has a type_name, a layer_ key holding an object, a
\* key of it other than zPos holding a string, a variant of the file (or "default").
C8_Variants(f) ==
    IF HasKey(f.data, Spell["variants"]) /\ Get(f.data, Spell["variants"], List(<<>>)).xs # <<>>
    THEN Get(f.data, Spell["variants"], List(<<>>)).xs
    ELSE <<Spell["default"]>>

C8_Places ==
    {pl \in UNION {UNION {UNION {{<<d, k, g, v>> : v \in DOMAIN C8_Variants(Listing[d])}
                                 : g \in (IF Listing[d].data[k].v.t = "obj"
                                          THEN DOMAIN Listing[d].data[k].v.items ELSE {})}
                          : k \in DOMAIN Listing[d].data}
                   : d \in DOMAIN Listing} :
        LET f == Listing[pl[1]]
            layer == f.data[pl[2]]
            entry == layer.v.items[pl[3]]
        IN  /\ f.parses /\ HasKey(f.data, Spell["type_name"])
            /\ Get(f.data, Spell["type_name"], Str(<<>>)).s # <<>>
            /\ SubSeq(layer.k, 1, 6) = Spell["layer_"]
            /\ entry.k # Spell["zPos"] /\ entry.v.t = "str"}

C8_Dir(pl) == Listing[pl[1]].data[pl[2]].v.items[pl[3]].v.s
C8_Variant(pl) == C8_Variants(Listing[pl[1]])[pl[4]]

\* gender_path, "/" and variant in a row.
C8_SlashJoined(pl) == C8_Dir(pl) \o <<"/">> \o C8_Variant(pl)

\* os.path.join and the replacement of backslashes: the variant alone when it starts
\* with "/", no separator added after an empty path or one ending in "/", every
\* backslash of the result turned into "/".
C8_OsJoined(pl) ==
    LET path == C8_Dir(pl)
        variant == C8_Variant(pl)
        joined == CASE variant # <<>> /\ variant[1] = "/" -> variant
                    [] path = <<>> -> variant
                    [] path[Len(path)] = "/" -> path \o variant
                    [] OTHER -> path \o <<"/">> \o variant
    IN  [i \in DOMAIN joined |-> IF joined[i] = "\\" THEN "/" ELSE joined[i]]

\* The record of a place, its path joined as the operating system joins it (os) or
\* with a "/" in between.
C8_Record(pl, os) ==
    LET f == Listing[pl[1]]
        items == f.data[pl[2]].v.items
    IN  [type_name |-> Get(f.data, Spell["type_name"], Str(<<>>)).s,
         gender |-> items[pl[3]].k,
         variant |-> C8_Variant(pl),
         z_index |-> IF HasKey(items, Spell["zPos"]) THEN Get(items, Spell["zPos"], Num(0)).n
                     ELSE 0,
         path |-> IF os THEN C8_OsJoined(pl) ELSE C8_SlashJoined(pl)]

\* entries holds exactly one record per place: as many as there are places, and each
\* record as many times as there are places that give it.
C8_OnePerPlace(os) ==
    LET places == C8_Places
        recs == {<<pl, C8_Record(pl, os)>> : pl \in places}
    IN  /\ Len(entries) = Cardinality(places)
        /\ \A i \in DOMAIN entries : \E pr \in recs : pr[2] = entries[i]
        /\ \A pr \in recs :
               Cardinality({i \in DOMAIN entries : entries[i] = pr[2]})
                   = Cardinality({qr \in recs : qr[2] = pr[2]})

\* parse_json_definitions has returned its records.
C8_Parsed == tool = "gen_characters" /\ pc = "parsed"

C8_Scenario ==
    Listing = <<HatDef>> =>
        entries = << [type_name |-> Spell["hat"], gender |-> Spell["male"],
                      variant |-> Spell["red"], z_index |-> 5, path |-> Spell["hats/male/red"]],
                     [type_name |-> Spell["hat"], gender |-> Spell["male"],
                      variant |-> Spell["blue"], z_index |-> 5, path |-> Spell["hats/male/blue"]],
                     [type_name |-> Spell["hat"], gender |-> Spell["female"],
                      variant |-> Spell["red"], z_index |-> 5, path |-> Spell["hats/female/red"]],
                     [type_name |-> Spell["hat"], gender |-> Spell["female"],
                      variant |-> Spell["blue"], z_index |-> 5,
                      path |-> Spell["hats/female/blue"]] >>

\* Every directory of the listing is non-empty and without backslash, every variant
\* relative.
C8_PlainNames ==
    \A pl \in C8_Places :
        /\ C8_Dir(pl) # <<>> /\ C8_Variant(pl) # <<>> /\ C8_Variant(pl)[1] # "/"
        /\ \A i \in DOMAIN C8_Dir(pl) : C8_Dir(pl)[i] # "\\"

\* C8, as the claim has it: parse_json_definitions gives exactly one record per place,
\* with path = gender_path + "/" + variant. (Stated for listings of plain names: a
\* directory may still end in "/".)
C8_NormalizerSlashJoined ==
    (C8_Parsed /\ C8_PlainNames) => C8_OnePerPlace(FALSE) /\ C8_Scenario

\* C8, amended: exactly one record per place, with path = os.path.join(gender_path,
\* variant) and its backslashes replaced by "/"; malformed entries give no record and
\* change no other; the scenario's definition gives its four records.
C8_NormalizerOutput == C8_Parsed => C8_OnePerPlace(TRUE) /\ C8_Scenario

\* Parsed: a listing with malformed entries, a directory that ends in "/" and one
\* with a backslash.
C8_Witness ==
    /\ C8_Parsed /\ Range(Listing) = {CapeDef, MixedDef}
    /\ Len(entries) = 3

\* C10: each classification the scans made gives the layer keyword of smallest index
\* in LAYER_ORDER among those inside the lowercased path (None without one), an
\* animation name inside the lowercased path (None without one), one result per
\* path, and torso / walk for male/torso/walk/leather.png.
C10_Inside(path, word) ==
    \E i \in 0..(Len(path) - Len(Spell[word])) :
        \A n \in 1..Len(Spell[word]) :
            Spell[word][n] = (IF path[i + n] \in DOMAIN LowerOf THEN LowerOf[path[i + n]]
                              ELSE path[i + n])

C10_Classification ==
    /\ \A c \in classified :
           /\ IF \E k \in DOMAIN LAYER_ORDER : C10_Inside(c.path, LAYER_ORDER[k])
              THEN \E k \in DOMAIN LAYER_ORDER :
                       /\ c.layer = LAYER_ORDER[k]
                       /\ C10_Inside(c.path, LAYER_ORDER[k])
                       /\ \A m \in 1..(k - 1) : ~C10_Inside(c.path, LAYER_ORDER[m])
              ELSE c.layer = None
           /\ IF \E a \in DOMAIN ANIMATIONS : C10_Inside(c.path, ANIMATIONS[a].name)
              THEN \E a \in DOMAIN ANIMATIONS :
                       c.animation = ANIMATIONS[a].name /\ C10_Inside(c.path, c.animation)
              ELSE c.animation = None
           /\ c.path = Spell["male/torso/walk/leather.png"] =>
                  c.layer = "torso" /\ c.animation = "walk"
    /\ \A c1, c2 \in classified : c1.path = c2.path => c1 = c2

\* Two scans classified the scenario's path and a path holding two layer keywords,
\* the later one of LAYER_ORDER first.
C10_Witness ==
    /\ scans = 2 /\ pc = "done"
    /\ \E c \in classified : c.path = Spell["male/torso/walk/leather.png"]
    /\ \E c \in classified : c.path = Spell["Head/legs/slash/walk.png"] /\ c.layer = "legs"

\* The position of each name of LAYER_ORDER in it.
C11_Position ==
    [name \in Range(LAYER_ORDER) |-> CHOOSE i \in DOMAIN LAYER_ORDER : LAYER_ORDER[i] = name]

\* C11: of two rows of gen.py's layers table, the one whose name comes earlier in
\* LAYER_ORDER has the strictly smaller render_order, and the strictly smaller
\* draw_order where both have one; every row that has an order has a name of
\* LAYER_ORDER.
C11_LayerOrderPreserved ==
    tool = "gen" =>
        LET rows == Table(disk, "layers")
        IN  /\ \A r \in rows : r.name \in DOMAIN C11_Position
            /\ \A a, b \in rows :
                   C11_Position[a.name] < C11_Position[b.name] =>
                       /\ a.render_order < b.render_order
                       /\ (a.draw_order # NULL /\ b.draw_order # NULL) =>
                              a.draw_order < b.draw_order

\* The schema script was run again on a store that holds the ten seeded layers.
C11_Witness ==
    /\ tool = "gen" /\ pc = "schema_error" /\ runs = 2
    /\ {r.name : r \in Table(disk, "layers")} = Range(LAYER_ORDER)
    /\ "draw_order" \in disk.columns

\* C12: in the store gen_new.py commits, every layers, variants and animations row
\* has the sheet_id of the sheets row made from its own definition file, and every
\* layer_paths row the layer_id of the layers row made from its own layer_ entry.
\* (Stated for runs in which the store raised no error of its own: the statements
\* that fail are those the definitions make fail.)
C12_OwnSheet(r) ==
    \E sh \in Table(disk, "sheets") :
        sh.sheet_id = r.sheet_id /\ inserts[sh.stmt].def = inserts[r.stmt].def

C12_OwnLayer(r) ==
    \E l \in Table(disk, "layers") :
        /\ l.layer_id = r.layer_id
        /\ inserts[l.stmt].def = inserts[r.stmt].def
        /\ inserts[l.stmt].item = inserts[r.stmt].item

C12_ParentFromOwnEntry ==
    (tool = "gen_new" /\ storeErrors = 0) =>
        /\ \A t \in {"layers", "variants", "animations"} :
               \A r \in Table(disk, t) : C12_OwnSheet(r)
        /\ \A r \in Table(disk, "layer_paths") : C12_OwnLayer(r)
====
